---------------------------- MODULE Spec2Model ----------------------------
(***************************************************************************)
(* TradeRamp deployment tooling: the Pulumi program (config validation,    *)
(* stack composition, outputs), the deployment scripts pulumi-deploy.sh    *)
(* and deploy.sh, and the certificate scripts wait-and-deploy-https.sh and *)
(* deploy-https-when-ready.  Every external command of a script is one     *)
(* step; a command may fail, and under `set -e` a failing command ends the *)
(* script with a non-zero exit code.                                       *)
(***************************************************************************)
EXTENDS Integers, Sequences, FiniteSets, TLC

(***************************************************************************)
(* Bounds of the model.                                                    *)
(***************************************************************************)
\* the sleeps the certificate wait loop counts before the counter saturates
MaxSleeps == 4
\* the readings of the wall clock (datetime.utcnow) that are told apart
MaxClock == 4

(***************************************************************************)
(* Configuration: config/settings.py                                       *)
(***************************************************************************)
NoDomain == "none"

\* ContainerConfig.validate: cpu in a fixed list, memory in a range; the two
\* are checked independently of each other
ContainerValid(c) ==
    /\ c.cpu \in {256, 512, 1024, 2048, 4096}
    /\ ~(c.memory < 512 \/ c.memory > 30720)

\* ScalingConfig.validate
ScalingValid(c) ==
    /\ ~(c.min_capacity > c.max_capacity)
    /\ ~(c.desired_count < c.min_capacity \/ c.desired_count > c.max_capacity)

\* InfrastructureConfig.validate: raises ValueError unless both hold
Validate(c) == ContainerValid(c) /\ ScalingValid(c)

Cfg(cpu, memory, desired, min, max, domain) ==
    [cpu |-> cpu, memory |-> memory, desired_count |-> desired,
     min_capacity |-> min, max_capacity |-> max, domain |-> domain]

\* the stack configurations the runs are tried on: the defaults of
\* from_pulumi_config, with and without a domain, and one config per way of
\* being wrong
ConfigChoices ==
    { Cfg(256, 512, 2, 1, 4, NoDomain),
      Cfg(256, 512, 2, 1, 4, "traderamp.com"),
      Cfg(128, 512, 2, 1, 4, NoDomain),
      Cfg(256, 256, 2, 1, 4, NoDomain),
      Cfg(256, 30720, 2, 1, 4, NoDomain),
      Cfg(256, 512, 2, 3, 1, NoDomain),
      Cfg(256, 512, 5, 1, 4, "traderamp.com") }

(***************************************************************************)
(* The stack: stacks/traderamp_stack.py and the components it composes     *)
(***************************************************************************)
\* the order in which TradeRampStack.__init__ (and VPCComponent.__init__,
\* _create_security_groups) register the resources
ResourceOrder ==
    << "vpc", "igw", "subnets", "route_table", "associations",
       "alb_sg", "ecs_sg", "ecr", "log_group", "ecs_cluster",
       "load_balancer", "ecs_service" >>

NumResources == Len(ResourceOrder)

\* the resources that carry the tags of create_default_tags
\* (RouteTableAssociation takes none)
Tagged == { i \in 1..NumResources : ResourceOrder[i] # "associations" }

IndexOf(name) == CHOOSE i \in 1..NumResources : ResourceOrder[i] = name

\* create_default_tags: "CreatedAt" is the wall clock of the program run
CreatedAt(now) == now

\* an update that works through the program from its end
AppliedBackwards(old, now, k) ==
    [ i \in 1..NumResources |->
        IF i <= NumResources - k THEN old[i] ELSE CreatedAt(now) ]

\* One `pulumi up` of the program run at wall clock `now` on a stack whose
\* resource i carries stamp old[i] (0: the resource does not exist), failing
\* at resource k+1 (k = NumResources: no failure).  Resources before the
\* failure are created, or updated when their tags differ; the others are
\* left as they are.
AppliedStamps(old, now, k) ==
    [ i \in 1..NumResources |->
        IF i > k THEN old[i]
        ELSE IF old[i] = 0 THEN CreatedAt(now)
        ELSE IF i \in Tagged THEN CreatedAt(now)
        ELSE old[i] ]

\* the resources a stack holds after an update, whatever it held before
HeldAfter(old, new) == { i \in 1..NumResources : new[i] # 0 }

\* the resources one `pulumi up` creates and the ones it changes
CreatedBy(old, new) == { i \in 1..NumResources : old[i] = 0 /\ new[i] # 0 }
ChangedBy(old, new) == { i \in 1..NumResources : old[i] # 0 /\ new[i] # old[i] }

\* outputs that announce the HTTPS site whatever the domain
HttpsOnlyOutputs(c, withServiceName) ==
    [ vpc_id |-> "vpc",
      ecr_repository_url |-> "ecr",
      ecs_cluster_name |-> "ecs_cluster",
      alb_dns_name |-> "load_balancer",
      ecs_service_name |-> IF withServiceName THEN "ecs_service" ELSE "",
      website_url |-> "https" ]

\* _export_outputs; ecs_service_name is exported by the program only when
\* `withServiceName` (the scripts read it, _export_outputs does not set it)
ExportedOutputs(c, withServiceName) ==
    [ vpc_id |-> "vpc",
      ecr_repository_url |-> "ecr",
      ecs_cluster_name |-> "ecs_cluster",
      alb_dns_name |-> "load_balancer",
      ecs_service_name |-> IF withServiceName THEN "ecs_service" ELSE "",
      website_url |-> IF c.domain # NoDomain THEN "https" ELSE "http" ]

NoOutputs ==
    [ vpc_id |-> "", ecr_repository_url |-> "", ecs_cluster_name |-> "",
      alb_dns_name |-> "", ecs_service_name |-> "", website_url |-> "" ]

NoStamps == [ i \in 1..NumResources |-> 0 ]


(***************************************************************************)
(* State                                                                   *)
(***************************************************************************)
VARIABLES
    config,            \* the stack configuration the Pulumi program loads
    exportsServiceName,\* whether the program exports ecs_service_name
    clock,             \* the last reading of the wall clock
    currentStack,      \* the stack selected in the pulumi/ workspace
    stacks,            \* the stacks that exist in the backend
    stamps,            \* per stack and resource: CreatedAt tag, 0 if absent
    outputs,           \* per stack: the outputs of the last successful up
    lockHolder,        \* per stack: who holds the backend's update lock
    certStatus,        \* the ACM certificate's status
    acmCalls,          \* per certificate script: the ACM operations it called
    certArnConfigured, \* pulumi config certificate_arn has been set
    wpc, wSTATUS, wExit,  \* wait-and-deploy-https.sh: position, $STATUS, exit code (once done)
    wSleeps,           \* the sleeps it has made (saturating at MaxSleeps)
    wSince,            \* seconds slept since its last describe-certificate
    wPolls,            \* the statuses its polls have returned so far
    hpc, hSTATUS, hExit,  \* deploy-https-when-ready: position, $STATUS, exit code
    hErrexit,          \* whether it runs under the `set -e` of the file it is in
    dpc, dSTACK, dExit,   \* pulumi-destroy.sh: position, $STACK, exit code (once done)
    dREPLY,            \* the replies the operator typed at its prompts
    mutations,         \* per process: resources its `pulumi up` runs created/changed
    created,           \* per process: the resources its `pulumi up` runs created
    registry,          \* per stack's ECR repository and tag: the image pushed
    svc,               \* per stack's ECS service: steady, rolling or failing
    script, arg, STACK,   \* per run: the script, its argument, $PULUMI_STACK
    fi, pc, exit,      \* per run: step of main, position in it, exit code (once done)
    log,               \* per run: the provider operations issued, in order
    predecessors,      \* per run: the runs that had ended when it started
    attempts,          \* per run: polls made by `aws ecs wait services-stable`
    pollSeen,          \* per run: the service states those polls returned
    ECR_URL, CLUSTER_NAME, SERVICE_NAME, IMAGE_TAG   \* per run: shell variables

pulumiVars == << config, exportsServiceName, clock, currentStack, stacks,
                 stamps, outputs, lockHolder, certArnConfigured, mutations, created >>
waitVars == << wpc, wSTATUS, wExit, wSleeps, wSince, wPolls >>
httpsVars == << hpc, hSTATUS, hExit, hErrexit >>
certVars == << certStatus, acmCalls >>
destroyVars == << dpc, dSTACK, dREPLY, dExit >>
cloudVars == << registry, svc >>
runVars == << script, arg, STACK, fi, pc, exit, log, predecessors, attempts, pollSeen,
              ECR_URL, CLUSTER_NAME, SERVICE_NAME, IMAGE_TAG >>

Stacks == { "production", "staging" }
\* image tags: the floating tag and a revision tag
Tags == { "latest", "rev" }
NoImage == "none"
NoStack == "none"
Nobody == "nobody"

CertStatuses == { "PENDING_VALIDATION", "ISSUED", "FAILED", "EXPIRED" }
\* STATUS when `aws acm describe-certificate` prints nothing
Unreadable == ""

\* wait-and-deploy-https.sh: CHECK_INTERVAL
CHECK_INTERVAL == 30

\* the exit code of a script killed by Ctrl+C (128 + SIGINT)
ExitInterrupted == 130

(***************************************************************************)
(* `pulumi up` on the selected stack, by process p.  The backend locks the *)
(* stack for the length of the update.                                     *)
(***************************************************************************)
NextClock == IF clock < MaxClock THEN clock + 1 ELSE clock

\* the update can start: a stack is selected and nobody updates it
CanLock(p) == currentStack # NoStack /\ lockHolder[currentStack] = Nobody

LockedBy(p) == { s \in Stacks : lockHolder[s] = p }

UpBegin(p) ==
    /\ CanLock(p)
    /\ lockHolder' = [lockHolder EXCEPT ![currentStack] = p]
    /\ UNCHANGED << config, exportsServiceName, clock, currentStack, stacks,
                    stamps, outputs, certArnConfigured, mutations, created >>

\* where an update is tried failing: at the first resource, after the
\* cluster (at the load balancer), or nowhere
FailurePoints == { 0, IndexOf("ecs_cluster"), NumResources }

\* `pulumi up` ends well when the program ran to its end
UpSucceeds(k) == Validate(config) /\ k = NumResources

\* The program runs main(): validate, then TradeRampStack(config).  A config
\* that validate rejects registers nothing (sys.exit(1)); otherwise the
\* resources are applied in order up to the failure point k, and the outputs
\* are exported when the whole program ran.
UpEnd(p, k) ==
    LET s == CHOOSE t \in Stacks : lockHolder[t] = p
        now == NextClock
        kk == IF Validate(config) THEN k ELSE 0
        new == AppliedStamps(stamps[s], now, kk)
    IN  /\ clock' = now
        /\ stamps' = [stamps EXCEPT ![s] = new]
        /\ outputs' = IF UpSucceeds(k)
                      THEN [outputs EXCEPT ![s] = ExportedOutputs(config, exportsServiceName)]
                      ELSE outputs
        /\ mutations' = [mutations EXCEPT ![p] = @ \cup CreatedBy(stamps[s], new)
                                                   \cup ChangedBy(stamps[s], new)]
        /\ created' = [created EXCEPT ![p] = @ \cup CreatedBy(stamps[s], new)]
        /\ lockHolder' = [lockHolder EXCEPT ![s] = Nobody]
        /\ UNCHANGED << config, exportsServiceName, currentStack, stacks,
                        certArnConfigured >>


(***************************************************************************)
(* The certificate: its status changes only by the certificate authority's *)
(* validation, outside the scripts.                                        *)
(***************************************************************************)
CertTransitions ==
    { << "PENDING_VALIDATION", "ISSUED" >>,
      << "PENDING_VALIDATION", "FAILED" >>,
      << "ISSUED", "EXPIRED" >> }

CertificateChanges ==
    /\ \E t \in CertTransitions : certStatus = t[1] /\ certStatus' = t[2]
    /\ UNCHANGED << acmCalls, pulumiVars, waitVars, httpsVars, destroyVars, cloudVars, runVars >>

\* what `aws acm describe-certificate --query Certificate.Status` prints:
\* the status, or nothing when the call fails
DescribeResults == { certStatus, Unreadable }

\* the ACM operations of a script that asks for a certificate before it
\* reads the status
RequestAndDescribe == { "request-certificate", "describe-certificate" }

\* the ACM operations behind STATUS=$(aws acm describe-certificate ...)
DescribeCalls == { "describe-certificate" }

Called(p) == acmCalls' = [acmCalls EXCEPT ![p] = @ \cup DescribeCalls]

(***************************************************************************)
(* wait-and-deploy-https.sh                                                *)
(***************************************************************************)
\* a looser test of $STATUS: anything but PENDING_VALIDATION
IsNotPending(status) == status # "PENDING_VALIDATION"

\* [ "$STATUS" == "ISSUED" ]
IsIssued(status) == status = "ISSUED"

\* [ "$STATUS" == "PENDING_VALIDATION" ]
IsPending(status) == status = "PENDING_VALIDATION"

\* where the loop body goes after the status was read: the ISSUED branch
\* deploys, the PENDING_VALIDATION branch and the else branch both fall
\* through to the sleep
WaitBranch(status) ==
    IF IsIssued(status) THEN "cd"
    ELSE IF IsPending(status) THEN "sleep"
    ELSE "sleep"

WStart ==
    /\ wpc = "idle"
    /\ wpc' = "describe"
    /\ UNCHANGED << wSTATUS, wExit, wSleeps, wSince, wPolls,
                    pulumiVars, httpsVars, certVars, destroyVars, cloudVars, runVars >>

\* STATUS=$(aws acm describe-certificate ... 2>/dev/null), then the branch
WDescribe ==
    /\ wpc = "describe"
    /\ \E st \in DescribeResults :
        /\ wSTATUS' = st
        /\ wPolls' = wPolls \cup { st }
        /\ wpc' = WaitBranch(st)
    /\ wSince' = 0
    /\ Called("wait")
    /\ UNCHANGED << wExit, wSleeps, pulumiVars, httpsVars, certStatus, destroyVars, cloudVars, runVars >>

\* sleep $CHECK_INTERVAL, and round the loop again
WSleep ==
    /\ wpc = "sleep"
    /\ wpc' = "describe"
    /\ wSince' = wSince + CHECK_INTERVAL
    /\ wSleeps' = IF wSleeps < MaxSleeps THEN wSleeps + 1 ELSE wSleeps
    /\ UNCHANGED << wSTATUS, wExit, wPolls, pulumiVars, httpsVars, certVars, destroyVars, cloudVars, runVars >>

\* cd "$(dirname "$0")/../pulumi" || exit 1
WCd ==
    /\ wpc = "cd"
    /\ \E ok \in BOOLEAN :
        IF ok THEN wpc' = "up" /\ wExit' = wExit
        ELSE wpc' = "done" /\ wExit' = 1
    /\ UNCHANGED << wSTATUS, wSleeps, wSince, wPolls,
                    pulumiVars, httpsVars, certVars, destroyVars, cloudVars, runVars >>

\* pulumi up --yes --skip-preview: the update starts, or is refused
WUpBegin ==
    /\ wpc = "up"
    /\ IF CanLock("wait")
       THEN /\ UpBegin("wait")
            /\ wpc' = "applying"
            /\ wExit' = wExit
       ELSE /\ wpc' = "done"
            /\ wExit' = 1
            /\ UNCHANGED pulumiVars
    /\ UNCHANGED << wSTATUS, wSleeps, wSince, wPolls, httpsVars, certVars, destroyVars, cloudVars, runVars >>

\* if pulumi up ...; then ...; break; else exit 1; fi
WUpEnd ==
    /\ wpc = "applying"
    /\ \E k \in FailurePoints :
        /\ UpEnd("wait", k)
        /\ wExit' = IF UpSucceeds(k) THEN 0 ELSE 1
    /\ wpc' = "done"
    /\ UNCHANGED << wSTATUS, wSleeps, wSince, wPolls, httpsVars, certVars, destroyVars, cloudVars, runVars >>

\* the operator presses Ctrl+C while the loop waits
WInterrupt ==
    /\ wpc \in { "describe", "sleep" }
    /\ wpc' = "done"
    /\ wExit' = ExitInterrupted
    /\ UNCHANGED << wSTATUS, wSleeps, wSince, wPolls,
                    pulumiVars, httpsVars, certVars, destroyVars, cloudVars, runVars >>

WaitStep == WStart \/ WDescribe \/ WSleep \/ WCd \/ WUpBegin \/ WUpEnd


(***************************************************************************)
(* deploy-https-when-ready (the script appended to local-test.sh)          *)
(***************************************************************************)
\* the branch taken on $STATUS: deploy, report pending (exit 0), or exit 1
HttpsBranch(status) ==
    IF IsIssued(status) THEN "cd"
    ELSE IF IsPending(status) THEN "pending"
    ELSE "unexpected"

HStart ==
    /\ hpc = "idle"
    /\ hpc' = "describe"
    /\ hErrexit' \in BOOLEAN
    /\ UNCHANGED << hSTATUS, hExit, pulumiVars, waitVars, certVars, destroyVars, cloudVars, runVars >>

\* STATUS=$(aws acm describe-certificate ...), then the branch
HDescribe ==
    /\ hpc = "describe"
    /\ \E st \in DescribeResults :
        /\ hSTATUS' = st
        /\ LET b == HttpsBranch(st)
           IN  /\ hpc' = IF b = "cd" THEN "cd" ELSE "done"
               /\ hExit' = IF b = "unexpected" THEN 1 ELSE hExit
    /\ Called("https")
    /\ UNCHANGED << hErrexit, pulumiVars, waitVars, certStatus, destroyVars, cloudVars, runVars >>

\* cd "$(dirname "$0")/../pulumi" || exit 1
HCd ==
    /\ hpc = "cd"
    /\ \E ok \in BOOLEAN :
        IF ok THEN hpc' = "config_set" /\ hExit' = hExit
        ELSE hpc' = "done" /\ hExit' = 1
    /\ UNCHANGED << hSTATUS, hErrexit, pulumiVars, waitVars, certVars, destroyVars, cloudVars, runVars >>

\* pulumi config set certificate_arn "$CERT_ARN"
HConfigSet ==
    /\ hpc = "config_set"
    /\ \E ok \in BOOLEAN :
        /\ certArnConfigured' = (certArnConfigured \/ ok)
        /\ IF ok \/ ~hErrexit THEN hpc' = "up" /\ hExit' = hExit
           ELSE hpc' = "done" /\ hExit' = 1
    /\ UNCHANGED << hSTATUS, hErrexit, config, exportsServiceName, clock,
                    currentStack, stacks, stamps, outputs, lockHolder,
                    mutations, created, waitVars, certVars, destroyVars, cloudVars, runVars >>

\* pulumi up --yes --skip-preview: the update starts, or is refused; a
\* refused update ends the script only under `set -e`
HUpBegin ==
    /\ hpc = "up"
    /\ IF CanLock("https")
       THEN /\ UpBegin("https")
            /\ hpc' = "applying"
            /\ hExit' = hExit
       ELSE /\ hpc' = "done"
            /\ hExit' = IF hErrexit THEN 1 ELSE 0
            /\ UNCHANGED pulumiVars
    /\ UNCHANGED << hSTATUS, hErrexit, waitVars, certVars, destroyVars, cloudVars, runVars >>

\* the update ends; the echo lines after it end the script with 0
HUpEnd ==
    /\ hpc = "applying"
    /\ \E k \in FailurePoints :
        /\ UpEnd("https", k)
        /\ hExit' = IF UpSucceeds(k) \/ ~hErrexit THEN 0 ELSE 1
    /\ hpc' = "done"
    /\ UNCHANGED << hSTATUS, hErrexit, waitVars, certVars, destroyVars, cloudVars, runVars >>

HttpsStep == HStart \/ HDescribe \/ HCd \/ HConfigSet \/ HUpBegin \/ HUpEnd

(***************************************************************************)
(* The deployment scripts: pulumi-deploy.sh and deploy.sh                  *)
(***************************************************************************)
Runs == { "r1", "r2" }

\* a main() that builds and pushes the image before it deploys the
\* infrastructure
PushFirstMain(a) ==
    IF a = "--infra-only"
    THEN << "check_prerequisites", "setup_pulumi", "deploy_infrastructure",
            "show_deployment_info" >>
    ELSE << "check_prerequisites", "setup_pulumi", "build_and_push_image",
            "deploy_infrastructure", "update_ecs_service", "show_deployment_info" >>

\* main() of pulumi-deploy.sh: the functions it calls, in order
PulumiDeployMain(a) ==
    IF a = "--infra-only"
    THEN << "check_prerequisites", "setup_pulumi", "deploy_infrastructure",
            "show_deployment_info" >>
    ELSE << "check_prerequisites", "setup_pulumi", "deploy_infrastructure",
            "build_and_push_image", "update_ecs_service", "show_deployment_info" >>

\* main() of deploy.sh: the functions it calls, in order, and the lookup of
\* the load balancer's address that ends it
DeployMain ==
    << "check_prerequisites", "build_image", "push_to_ecr",
       "update_ecs_service", "get_service_status", "alb_url" >>

\* a main() that takes no heed of its argument
MainOfFullRun(r) == IF script[r] = "pulumi-deploy.sh" THEN PulumiDeployMain("") ELSE DeployMain

Main(r) == IF script[r] = "pulumi-deploy.sh" THEN PulumiDeployMain(arg[r]) ELSE DeployMain

\* the function of main the run is in
Fn(r) == IF pc[r] \in { "idle", "done" } THEN pc[r] ELSE Main(r)[fi[r]]

\* the first command of a function
Entry(r, f) ==
    CASE f = "check_prerequisites" -> "check"
      [] f = "setup_pulumi" -> "setup"
      [] f = "deploy_infrastructure" -> "preview"
      [] f = "build_and_push_image" -> "ecr_url"
      [] f = "build_image" -> "docker_build"
      [] f = "push_to_ecr" -> "ecr_login"
      [] f = "update_ecs_service" ->
            IF script[r] = "pulumi-deploy.sh" THEN "service_names" ELSE "update_service"
      [] f = "show_deployment_info" -> "show_info"
      [] f = "get_service_status" -> "describe_services"
      [] f = "alb_url" -> "describe_load_balancers"
      [] OTHER -> f

\* the run goes on with its next command
Goto(r, next) ==
    /\ pc' = [pc EXCEPT ![r] = next]
    /\ UNCHANGED << fi, exit >>

\* the script ends with exit code `code`
Exit(r, code) ==
    /\ pc' = [pc EXCEPT ![r] = "done"]
    /\ exit' = [exit EXCEPT ![r] = code]
    /\ UNCHANGED fi

\* the function returns: main calls the next one, or ends with 0
Return(r) ==
    IF fi[r] = Len(Main(r))
    THEN Exit(r, 0)
    ELSE /\ fi' = [fi EXCEPT ![r] = @ + 1]
         /\ pc' = [pc EXCEPT ![r] = Entry(r, Main(r)[fi[r] + 1])]
         /\ UNCHANGED exit

\* a command that fails is issued again
OrAgain(r, ok, then) == IF ok THEN then ELSE Goto(r, pc[r])

\* a command that fails ends the script (set -e)
OrExit(r, ok, then) == IF ok THEN then ELSE Exit(r, 1)

Logged(r, op) == log' = [log EXCEPT ![r] = Append(@, op)]

\* the scripts and stacks a run is tried with (the runs are interchangeable:
\* the first is pulumi-deploy.sh on the default stack)
StartChoices(r) ==
    IF r = "r1"
    THEN { << "pulumi-deploy.sh", "production" >> }
    ELSE { << "pulumi-deploy.sh", "production" >>, << "pulumi-deploy.sh", "staging" >>,
           << "deploy.sh", "production" >> }

\* the script is started: ./scripts/pulumi-deploy.sh [--infra-only] with
\* PULUMI_STACK set or defaulted, or ./scripts/deploy.sh
Start(r) ==
    /\ pc[r] = "idle"
    /\ \E c \in StartChoices(r) :
        /\ script' = [script EXCEPT ![r] = c[1]]
        /\ STACK' = [STACK EXCEPT ![r] = c[2]]
        /\ IF c[1] = "pulumi-deploy.sh"
           THEN \E a \in { "", "--infra-only" } : arg' = [arg EXCEPT ![r] = a]
           ELSE arg' = arg
    /\ fi' = [fi EXCEPT ![r] = 1]
    /\ pc' = [pc EXCEPT ![r] = "check"]
    /\ predecessors' = [predecessors EXCEPT ![r] = { q \in Runs : pc[q] = "done" }]
    /\ UNCHANGED << exit, log, attempts, pollSeen, ECR_URL, CLUSTER_NAME,
                    SERVICE_NAME, IMAGE_TAG, pulumiVars, cloudVars, waitVars,
                    httpsVars, certVars, destroyVars >>

\* check_prerequisites: the tools are installed and the credentials work
CheckPrerequisites(r) ==
    /\ pc[r] = "check"
    /\ \E ok \in BOOLEAN : OrExit(r, ok, Return(r))
    /\ UNCHANGED << script, arg, STACK, predecessors, log, attempts, pollSeen, ECR_URL,
                    CLUSTER_NAME, SERVICE_NAME, IMAGE_TAG, pulumiVars, cloudVars,
                    waitVars, httpsVars, certVars, destroyVars >>

\* setup_pulumi: venv, pip, login, then `pulumi stack select` of an existing
\* stack or `pulumi stack init` of a new one; both make it the workspace's
\* selected stack
SetupPulumi(r) ==
    /\ pc[r] = "setup"
    /\ \E ok \in BOOLEAN :
        /\ OrExit(r, ok, Return(r))
        /\ stacks' = IF ok THEN stacks \cup { STACK[r] } ELSE stacks
        /\ currentStack' = IF ok THEN STACK[r] ELSE currentStack
    /\ UNCHANGED << script, arg, STACK, predecessors, log, attempts, pollSeen, ECR_URL,
                    CLUSTER_NAME, SERVICE_NAME, IMAGE_TAG, config,
                    exportsServiceName, clock, stamps, outputs, lockHolder,
                    certArnConfigured, mutations, created, cloudVars, waitVars,
                    httpsVars, certVars, destroyVars >>

\* deploy_infrastructure: pulumi preview.  The program runs on the selected
\* stack; validate() failing ends it before any resource is registered.
PulumiPreview(r) ==
    /\ pc[r] = "preview"
    /\ \E ok \in BOOLEAN : OrExit(r, ok /\ Validate(config), Goto(r, "confirm"))
    /\ IF Validate(config) THEN Logged(r, "preview") ELSE log' = log
    /\ UNCHANGED << script, arg, STACK, predecessors, attempts, pollSeen, ECR_URL,
                    CLUSTER_NAME, SERVICE_NAME, IMAGE_TAG, pulumiVars, cloudVars,
                    waitVars, httpsVars, certVars, destroyVars >>

\* read -p "Do you want to proceed with deployment? (y/N) ": anything but
\* y or Y cancels, with exit 0
Confirm(r) ==
    /\ pc[r] = "confirm"
    /\ \E reply \in { "y", "n" } :
        IF reply = "y" THEN Goto(r, "up") ELSE Exit(r, 0)
    /\ UNCHANGED << script, arg, STACK, predecessors, log, attempts, pollSeen, ECR_URL,
                    CLUSTER_NAME, SERVICE_NAME, IMAGE_TAG, pulumiVars, cloudVars,
                    waitVars, httpsVars, certVars, destroyVars >>

\* pulumi up --yes: the update starts, or is refused (no stack, or the stack
\* is locked by an update in progress)
PulumiUpBegin(r) ==
    /\ pc[r] = "up"
    /\ IF CanLock(r)
       THEN /\ UpBegin(r)
            /\ Goto(r, "applying")
            /\ IF Validate(config) THEN Logged(r, "up") ELSE log' = log
       ELSE /\ Exit(r, 1)
            /\ UNCHANGED << pulumiVars, log >>
    /\ UNCHANGED << script, arg, STACK, predecessors, attempts, pollSeen, ECR_URL,
                    CLUSTER_NAME, SERVICE_NAME, IMAGE_TAG, cloudVars,
                    waitVars, httpsVars, certVars, destroyVars >>

\* pulumi up --yes ends
PulumiUpEnd(r) ==
    /\ pc[r] = "applying"
    /\ \E k \in FailurePoints :
        /\ UpEnd(r, k)
        /\ OrExit(r, UpSucceeds(k), Return(r))
    /\ UNCHANGED << script, arg, STACK, predecessors, log, attempts, pollSeen, ECR_URL,
                    CLUSTER_NAME, SERVICE_NAME, IMAGE_TAG, cloudVars,
                    waitVars, httpsVars, certVars, destroyVars >>

(***************************************************************************)
(* Image build and push                                                    *)
(***************************************************************************)
\* what `pulumi stack output <name>` prints for the selected stack; the
\* scripts turn a failing call into the empty string
StackOutput(name) ==
    IF currentStack = NoStack THEN "" ELSE outputs[currentStack][name]

\* the stack whose repository or service a non-empty output names
Named(value) == IF value = "" THEN "" ELSE currentStack

RepositoryExists(s) == s \in Stacks /\ stamps[s][IndexOf("ecr")] # 0
ServiceExists(s) == s \in Stacks /\ stamps[s][IndexOf("ecs_service")] # 0

\* build_and_push_image: ECR_URL=$(... pulumi stack output ecr_repository_url
\* || echo ""); an empty ECR_URL returns from the function with a warning
EcrUrl(r) ==
    /\ pc[r] = "ecr_url"
    /\ \E url \in { Named(StackOutput("ecr_repository_url")), "" } :
        /\ ECR_URL' = [ECR_URL EXCEPT ![r] = url]
        /\ IF url = "" THEN Return(r) ELSE Goto(r, "ecr_login")
    /\ UNCHANGED << script, arg, STACK, predecessors, log, attempts, pollSeen, CLUSTER_NAME,
                    SERVICE_NAME, IMAGE_TAG, pulumiVars, cloudVars, waitVars,
                    httpsVars, certVars, destroyVars >>

\* aws ecr get-login-password | docker login
EcrLogin(r) ==
    /\ pc[r] = "ecr_login"
    /\ \E ok \in BOOLEAN :
        OrExit(r, ok, Goto(r, IF script[r] = "pulumi-deploy.sh"
                              THEN "docker_build" ELSE "describe_repositories"))
    /\ Logged(r, "ecr-login")
    /\ UNCHANGED << script, arg, STACK, predecessors, attempts, pollSeen, ECR_URL, CLUSTER_NAME,
                    SERVICE_NAME, IMAGE_TAG, pulumiVars, cloudVars, waitVars,
                    httpsVars, certVars, destroyVars >>

\* IMAGE_TAG="${IMAGE_TAG:-latest}" (pulumi-deploy.sh);
\* IMAGE_TAG=${IMAGE_TAG:-$(git rev-parse --short HEAD || echo "latest")}
\* (deploy.sh): the tag of the environment, a revision, or latest
ImageTagChoices == Tags

\* docker build (deploy.sh: build_image, after the Dockerfile check), and
\* in pulumi-deploy.sh the two docker tag commands after it
DockerBuild(r) ==
    /\ pc[r] = "docker_build"
    /\ \E ok \in BOOLEAN :
        IF script[r] = "pulumi-deploy.sh"
        THEN /\ OrExit(r, ok, Goto(r, "push_tag"))
             /\ \E t \in ImageTagChoices : IMAGE_TAG' = [IMAGE_TAG EXCEPT ![r] = t]
        ELSE /\ OrExit(r, ok, Return(r))
             /\ IMAGE_TAG' = IMAGE_TAG
    /\ UNCHANGED << script, arg, STACK, predecessors, log, attempts, pollSeen, ECR_URL,
                    CLUSTER_NAME, SERVICE_NAME, pulumiVars, cloudVars, waitVars,
                    httpsVars, certVars, destroyVars >>

\* push_to_ecr of deploy.sh: REPOSITORY_URI=$(aws ecr describe-repositories
\* ...) of the repository traderamp-production, then the docker tag commands
DescribeRepositories(r) ==
    /\ pc[r] = "describe_repositories"
    /\ \E ok \in BOOLEAN :
        /\ OrExit(r, ok /\ RepositoryExists("production"), Goto(r, "push_tag"))
        /\ ECR_URL' = [ECR_URL EXCEPT ![r] =
                          IF ok /\ RepositoryExists("production") THEN "production" ELSE ""]
    /\ \E t \in ImageTagChoices : IMAGE_TAG' = [IMAGE_TAG EXCEPT ![r] = t]
    /\ Logged(r, "describe-repositories")
    /\ UNCHANGED << script, arg, STACK, predecessors, attempts, pollSeen, CLUSTER_NAME,
                    SERVICE_NAME, pulumiVars, cloudVars, waitVars, httpsVars,
                    certVars, destroyVars >>

\* docker push of tag t to the repository the run resolved
Pushed(r, t, ok) ==
    IF ok /\ RepositoryExists(ECR_URL[r])
    THEN registry' = [registry EXCEPT ![ECR_URL[r]][t] = r]
    ELSE registry' = registry

\* docker push "$ECR_URL:$IMAGE_TAG"
DockerPushTag(r) ==
    /\ pc[r] = "push_tag"
    /\ \E ok \in BOOLEAN :
        /\ OrExit(r, ok /\ RepositoryExists(ECR_URL[r]), Goto(r, "push_latest"))
        /\ Pushed(r, IMAGE_TAG[r], ok)
    /\ Logged(r, "push")
    /\ UNCHANGED << script, arg, STACK, predecessors, attempts, pollSeen, ECR_URL, CLUSTER_NAME,
                    SERVICE_NAME, IMAGE_TAG, pulumiVars, svc, waitVars,
                    httpsVars, certVars, destroyVars >>

\* docker push "$ECR_URL:latest"
DockerPushLatest(r) ==
    /\ pc[r] = "push_latest"
    /\ \E ok \in BOOLEAN :
        /\ OrExit(r, ok /\ RepositoryExists(ECR_URL[r]), Return(r))
        /\ Pushed(r, "latest", ok)
    /\ Logged(r, "push")
    /\ UNCHANGED << script, arg, STACK, predecessors, attempts, pollSeen, ECR_URL, CLUSTER_NAME,
                    SERVICE_NAME, IMAGE_TAG, pulumiVars, svc, waitVars,
                    httpsVars, certVars, destroyVars >>

(***************************************************************************)
(* Service update                                                          *)
(***************************************************************************)
\* the polls `aws ecs wait services-stable` makes before it gives up
MaxWaitAttempts == 2

\* update_ecs_service of pulumi-deploy.sh: CLUSTER_NAME and SERVICE_NAME from
\* the stack outputs; if either is empty the function returns with a warning
ServiceNames(r) ==
    /\ pc[r] = "service_names"
    /\ \E cl \in { Named(StackOutput("ecs_cluster_name")), "" },
          sv \in { Named(StackOutput("ecs_service_name")), "" } :
        /\ CLUSTER_NAME' = [CLUSTER_NAME EXCEPT ![r] = cl]
        /\ SERVICE_NAME' = [SERVICE_NAME EXCEPT ![r] = sv]
        /\ IF cl = "" \/ sv = "" THEN Return(r) ELSE Goto(r, "update_service")
    /\ UNCHANGED << script, arg, STACK, predecessors, log, attempts, pollSeen, ECR_URL,
                    IMAGE_TAG, pulumiVars, cloudVars, waitVars, httpsVars,
                    certVars, destroyVars >>

\* the service the run updates: the one the outputs named, or the fixed
\* traderamp-production of deploy.sh
Service(r) == IF script[r] = "pulumi-deploy.sh" THEN SERVICE_NAME[r] ELSE "production"

\* aws ecs update-service --force-new-deployment
UpdateService(r) ==
    /\ pc[r] = "update_service"
    /\ \E ok \in BOOLEAN :
        LET done == ok /\ ServiceExists(Service(r))
        IN  /\ OrExit(r, done, Goto(r, "wait_stable"))
            /\ svc' = IF done THEN [svc EXCEPT ![Service(r)] = "rolling"] ELSE svc
    /\ Logged(r, "update-service")
    /\ UNCHANGED << script, arg, STACK, predecessors, attempts, pollSeen, ECR_URL, CLUSTER_NAME,
                    SERVICE_NAME, IMAGE_TAG, pulumiVars, registry, waitVars,
                    httpsVars, certVars, destroyVars >>

\* a waiter that ends well when its polls are used up
WaiterGivesIn(status, made) ==
    IF status = "steady" \/ made >= MaxWaitAttempts THEN "ok" ELSE "poll"

\* the waiter after a poll that returned `status`, `made` polls made: it
\* ends well on a steady service, with an error when that was the last
\* poll allowed, and polls again otherwise
WaiterResult(status, made) ==
    IF status = "steady" THEN "ok"
    ELSE IF made >= MaxWaitAttempts THEN "failed"
    ELSE "poll"

\* aws ecs wait services-stable: one poll of the service.  A steady service
\* ends the wait well; the last poll allowed ends it with an error, which
\* ends the script (set -e).
WaitServicesStable(r) ==
    /\ pc[r] = "wait_stable"
    /\ pollSeen' = [pollSeen EXCEPT ![r] = @ \cup { svc[Service(r)] }]
    /\ attempts' = [attempts EXCEPT ![r] = @ + 1]
    /\ LET result == WaiterResult(svc[Service(r)], attempts[r] + 1)
       IN  IF result = "ok" THEN Return(r)
           ELSE IF result = "failed" THEN Exit(r, 1)
           ELSE UNCHANGED << fi, pc, exit >>
    /\ UNCHANGED << script, arg, STACK, predecessors, log, ECR_URL, CLUSTER_NAME, SERVICE_NAME,
                    IMAGE_TAG, pulumiVars, cloudVars, waitVars, httpsVars,
                    certVars, destroyVars >>

\* show_deployment_info (pulumi stack output), get_service_status (aws ecs
\* describe-services) and the aws elbv2 describe-load-balancers that ends
\* deploy.sh: reads that end the script when they fail
ReadOnlyStep(r) ==
    /\ pc[r] \in { "show_info", "describe_services", "describe_load_balancers" }
    /\ \E ok \in BOOLEAN : OrExit(r, ok, Return(r))
    /\ UNCHANGED << script, arg, STACK, predecessors, log, attempts, pollSeen, ECR_URL,
                    CLUSTER_NAME, SERVICE_NAME, IMAGE_TAG, pulumiVars, cloudVars,
                    waitVars, httpsVars, certVars, destroyVars >>

\* the ECS scheduler: the tasks of a deployment in progress come up, or
\* fail; a failing deployment may be given up for the previous one
ServiceTransitions ==
    { << "rolling", "steady" >>, << "rolling", "failing" >>, << "failing", "steady" >> }

ServiceChanges ==
    /\ \E s \in Stacks, t \in ServiceTransitions :
        /\ svc[s] = t[1]
        /\ svc' = [svc EXCEPT ![s] = t[2]]
    /\ UNCHANGED << registry, runVars, pulumiVars, waitVars, httpsVars, certVars, destroyVars >>

RunStep(r) ==
    \/ Start(r) \/ CheckPrerequisites(r) \/ SetupPulumi(r)
    \/ PulumiPreview(r) \/ Confirm(r) \/ PulumiUpBegin(r) \/ PulumiUpEnd(r)
    \/ EcrUrl(r) \/ EcrLogin(r) \/ DockerBuild(r) \/ DescribeRepositories(r)
    \/ DockerPushTag(r) \/ DockerPushLatest(r)
    \/ ServiceNames(r) \/ UpdateService(r) \/ WaitServicesStable(r)
    \/ ReadOnlyStep(r)

(***************************************************************************)
(* pulumi-destroy.sh                                                       *)
(***************************************************************************)
\* [[ ! $REPLY == "yes" ]]: the first confirmation takes the word yes
TypedYes(reply) == reply = "yes"

\* a confirmation that takes any reply
AnyReply(reply) == reply \in { "yes", "y", "n", "" }

\* [[ ! $REPLY =~ ^[Yy]$ ]]: the second confirmation takes y or Y
TypedY(reply) == reply \in { "y", "Y" }

\* what the operator may type at a prompt
Replies == { "yes", "y", "n", "" }

\* `pulumi destroy` that fails at resource k leaves the resources 1..k
DestroyedStamps(old, k) == [ i \in 1..NumResources |-> IF i > k THEN 0 ELSE old[i] ]

\* the resources a `pulumi destroy` removed, as negative numbers
RemovedBy(old, new) == { 0 - i : i \in { j \in 1..NumResources : old[j] # 0 /\ new[j] = 0 } }

\* ./scripts/pulumi-destroy.sh with PULUMI_STACK set or defaulted
DStart ==
    /\ dpc = "idle"
    /\ dpc' = "confirm_destroy"
    /\ \E s \in Stacks : dSTACK' = s
    /\ UNCHANGED << dExit, dREPLY, pulumiVars, waitVars, httpsVars, certVars,
                    cloudVars, runVars >>

\* read -p "Are you sure you want to destroy all resources? Type 'yes' ..."
DConfirmDestroy ==
    /\ dpc = "confirm_destroy"
    /\ \E reply \in Replies :
        /\ dREPLY' = Append(dREPLY, reply)
        /\ dpc' = IF TypedYes(reply) THEN "select" ELSE "done"
    /\ dExit' = 0
    /\ UNCHANGED << dSTACK, pulumiVars, waitVars, httpsVars, certVars, cloudVars, runVars >>

\* cd "$PULUMI_DIR"; pulumi stack select "$STACK"
DSelect ==
    /\ dpc = "select"
    /\ \E ok \in BOOLEAN :
        IF ok /\ dSTACK \in stacks
        THEN /\ currentStack' = dSTACK
             /\ dpc' = "preview"
             /\ dExit' = dExit
        ELSE /\ currentStack' = currentStack
             /\ dpc' = "done"
             /\ dExit' = 1
    /\ UNCHANGED << dSTACK, dREPLY, config, exportsServiceName, clock, stacks, stamps,
                    outputs, lockHolder, certArnConfigured, mutations, created, waitVars,
                    httpsVars, certVars, cloudVars, runVars >>

\* pulumi preview --destroy
DPreview ==
    /\ dpc = "preview"
    /\ \E ok \in BOOLEAN :
        /\ dpc' = IF ok THEN "confirm_proceed" ELSE "done"
        /\ dExit' = IF ok THEN dExit ELSE 1
    /\ UNCHANGED << dSTACK, dREPLY, pulumiVars, waitVars, httpsVars, certVars,
                    cloudVars, runVars >>

\* read -p "Proceed with destruction? (y/N) "
DConfirmProceed ==
    /\ dpc = "confirm_proceed"
    /\ \E reply \in Replies :
        /\ dREPLY' = Append(dREPLY, reply)
        /\ dpc' = IF TypedY(reply) THEN "destroy" ELSE "done"
    /\ dExit' = 0
    /\ UNCHANGED << dSTACK, pulumiVars, waitVars, httpsVars, certVars, cloudVars, runVars >>

\* pulumi destroy --yes: the update starts, or is refused
DDestroyBegin ==
    /\ dpc = "destroy"
    /\ IF CanLock("destroy")
       THEN /\ UpBegin("destroy")
            /\ dpc' = "destroying"
            /\ dExit' = dExit
       ELSE /\ dpc' = "done"
            /\ dExit' = 1
            /\ UNCHANGED pulumiVars
    /\ UNCHANGED << dSTACK, dREPLY, waitVars, httpsVars, certVars, cloudVars, runVars >>

\* pulumi destroy --yes ends: the resources after the failure point are
\* gone, and with all of them the outputs and the service
DDestroyEnd ==
    /\ dpc = "destroying"
    /\ \E k \in FailurePoints :
        LET s == CHOOSE t \in Stacks : lockHolder[t] = "destroy"
            new == DestroyedStamps(stamps[s], k)
        IN  /\ stamps' = [stamps EXCEPT ![s] = new]
            /\ outputs' = IF k = 0 THEN [outputs EXCEPT ![s] = NoOutputs] ELSE outputs
            /\ mutations' = [mutations EXCEPT !["destroy"] = @ \cup RemovedBy(stamps[s], new)]
            /\ lockHolder' = [lockHolder EXCEPT ![s] = Nobody]
            /\ dpc' = IF k = 0 THEN "confirm_remove" ELSE "done"
            /\ dExit' = IF k = 0 THEN dExit ELSE 1
    /\ UNCHANGED << dSTACK, dREPLY, config, exportsServiceName, clock, currentStack,
                    stacks, certArnConfigured, created, waitVars, httpsVars, certVars,
                    cloudVars, runVars >>

\* read -p "Do you also want to remove the Pulumi stack? (y/N) ";
\* pulumi stack rm "$STACK" --yes
DRemoveStack ==
    /\ dpc = "confirm_remove"
    /\ \E reply \in Replies, ok \in BOOLEAN :
        /\ dREPLY' = Append(dREPLY, reply)
        /\ IF TypedY(reply)
           THEN /\ stacks' = IF ok THEN stacks \ { dSTACK } ELSE stacks
                /\ currentStack' = IF ok /\ currentStack = dSTACK THEN NoStack ELSE currentStack
                /\ dExit' = IF ok THEN 0 ELSE 1
           ELSE /\ UNCHANGED << stacks, currentStack >>
                /\ dExit' = 0
    /\ dpc' = "done"
    /\ UNCHANGED << dSTACK, config, exportsServiceName, clock, stamps, outputs,
                    lockHolder, certArnConfigured, mutations, created, waitVars, httpsVars,
                    certVars, cloudVars, runVars >>

DestroyStep ==
    \/ DStart \/ DConfirmDestroy \/ DSelect \/ DPreview \/ DConfirmProceed
    \/ DDestroyBegin \/ DDestroyEnd \/ DRemoveStack

(***************************************************************************)
(* Initial states and specifications                                       *)
(***************************************************************************)
Procs == Runs \cup { "wait", "https", "destroy" }

vars == << pulumiVars, waitVars, httpsVars, certVars, destroyVars, cloudVars, runVars >>

\* a stack on which the whole program has been applied at clock reading 1
Deployed == [ i \in 1..NumResources |-> CreatedAt(1) ]

\* the configurations the certificate scripts are tried on
CertConfigChoices ==
    { Cfg(256, 512, 2, 1, 4, NoDomain), Cfg(256, 512, 2, 1, 4, "traderamp.com") }

InitWith(configs, serviceNameExports, deployedChoices, certChoices) ==
    /\ config \in configs
    /\ exportsServiceName \in serviceNameExports
    /\ clock = 1
    /\ \E deployed \in deployedChoices :
        IF deployed /\ Validate(config)
        THEN /\ stacks = { "production" }
             /\ currentStack = "production"
             /\ stamps = [ s \in Stacks |-> IF s = "production" THEN Deployed ELSE NoStamps ]
             /\ outputs = [ s \in Stacks |->
                              IF s = "production"
                              THEN ExportedOutputs(config, exportsServiceName)
                              ELSE NoOutputs ]
        ELSE /\ stacks = {}
             /\ currentStack = NoStack
             /\ stamps = [ s \in Stacks |-> NoStamps ]
             /\ outputs = [ s \in Stacks |-> NoOutputs ]
    /\ lockHolder = [ s \in Stacks |-> Nobody ]
    /\ certArnConfigured = FALSE
    /\ mutations = [ p \in Procs |-> {} ]
    /\ created = [ p \in Procs |-> {} ]
    /\ certStatus \in certChoices
    /\ acmCalls = [ p \in { "wait", "https" } |-> {} ]
    /\ wpc = "idle" /\ wSTATUS = Unreadable /\ wExit = 0
    /\ wSleeps = 0 /\ wSince = 0 /\ wPolls = {}
    /\ hpc = "idle" /\ hSTATUS = Unreadable /\ hExit = 0 /\ hErrexit = FALSE
    /\ dpc = "idle" /\ dSTACK = NoStack /\ dREPLY = << >> /\ dExit = 0
    /\ registry = [ s \in Stacks |-> [ t \in Tags |-> NoImage ] ]
    /\ svc = [ s \in Stacks |-> "steady" ]
    /\ script = [ r \in Runs |-> "" ] /\ arg = [ r \in Runs |-> "" ]
    /\ STACK = [ r \in Runs |-> NoStack ]
    /\ fi = [ r \in Runs |-> 0 ] /\ pc = [ r \in Runs |-> "idle" ]
    /\ exit = [ r \in Runs |-> 0 ]
    /\ log = [ r \in Runs |-> << >> ]
    /\ predecessors = [ r \in Runs |-> {} ]
    /\ attempts = [ r \in Runs |-> 0 ] /\ pollSeen = [ r \in Runs |-> {} ]
    /\ ECR_URL = [ r \in Runs |-> "" ] /\ CLUSTER_NAME = [ r \in Runs |-> "" ]
    /\ SERVICE_NAME = [ r \in Runs |-> "" ] /\ IMAGE_TAG = [ r \in Runs |-> "" ]

\* the deployment scripts start on an account where nothing is deployed
Init == InitWith(ConfigChoices, BOOLEAN, { FALSE }, { "PENDING_VALIDATION" })

\* the deployment scripts, under any interleaving, and the ECS scheduler
Next == (\E r \in Runs : RunStep(r)) \/ ServiceChanges

Spec == Init /\ [][Next]_vars

\* the deployment scripts run one after the other: a script is started
\* once the one before it has ended
SerialNext ==
    \/ \E r \in Runs :
          /\ \A q \in Runs \ { r } : pc[q] \in { "idle", "done" }
          /\ RunStep(r)
    \/ ServiceChanges

SerialSpec == Init /\ [][SerialNext]_vars

\* the configurations the destroy script is tried on: the defaults, and one
\* that validate rejects
DestroyConfigChoices == { Cfg(256, 512, 2, 1, 4, NoDomain), Cfg(256, 512, 2, 3, 1, NoDomain) }

\* the operator's account, with the production stack deployed or not
DestroyInit == InitWith(DestroyConfigChoices, { TRUE }, BOOLEAN, { "PENDING_VALIDATION" })

\* a deployment script and pulumi-destroy.sh, under any interleaving
DestroyNext == DestroyStep \/ (\E r \in { "r2" } : RunStep(r)) \/ ServiceChanges

DestroySpec == DestroyInit /\ [][DestroyNext]_vars

\* the certificate scripts read no stack output
CertInit == InitWith(CertConfigChoices, { TRUE }, BOOLEAN, CertStatuses)

\* the certificate scripts, the certificate authority and the operator
CertNext == WaitStep \/ WInterrupt \/ HttpsStep \/ CertificateChanges

CertSpec == CertInit /\ [][CertNext]_vars

\* the shell runs the next command of a script that has not ended; nothing
\* makes the certificate authority validate, or the operator interrupt
FairCertSpec == CertSpec /\ WF_vars(WaitStep) /\ WF_vars(HttpsStep)


(***************************************************************************)
(* Properties of the certificate scripts                                   *)
(***************************************************************************)
\* the wait loop is between two polls
WaitLooping == wpc \in { "describe", "sleep" }

\* a lower bound of the seconds since the wait loop started
WaitElapsed == wSleeps * CHECK_INTERVAL

\* the timeout the wait is measured against
WaitTimeout == 2 * CHECK_INTERVAL

\* C1: every run that has started eventually ends (in STABLE, FAILED or
\* ROLLED_BACK) and does not hang in a waiting state: the certificate wait,
\* once started, eventually reaches its end.
C1_RunEventuallyEnds == [](wpc # "idle" => <>(wpc = "done"))

\* C5: with a certificate that never gets past PENDING_VALIDATION, the wait
\* has returned by timeout + one poll interval: it is not still polling
\* after that.
C5_WaitReturnsByTimeout ==
    (WaitLooping /\ wPolls \subseteq { "PENDING_VALIDATION" })
        => WaitElapsed <= WaitTimeout + CHECK_INTERVAL

C10_FatalOnFailedOrExpired ==
    /\ wSTATUS \in { "FAILED", "EXPIRED" } => (wpc = "done" /\ wExit # 0)
    /\ hSTATUS \in { "FAILED", "EXPIRED" } => (hpc = "done" /\ hExit # 0)


(***************************************************************************)
(* Properties of the deployment runs                                       *)
(***************************************************************************)
Range(seq) == { seq[i] : i \in 1..Len(seq) }
Count(seq, x) == Cardinality({ i \in 1..Len(seq) : seq[i] = x })

\* the state of the Deployment a run stands for
DeploymentState(r) ==
    CASE pc[r] = "idle" -> "PENDING"
      [] pc[r] = "done" -> IF exit[r] = 0 THEN "STABLE" ELSE "FAILED"
      [] Fn(r) \in { "check_prerequisites", "setup_pulumi" } -> "PENDING"
      [] Fn(r) = "deploy_infrastructure" -> "APPLYING_INFRA"
      [] Fn(r) \in { "build_image", "push_to_ecr", "build_and_push_image" } -> "PUSHING_IMAGE"
      [] OTHER -> "ROLLING_SERVICE"

\* the cpu/memory pairs the desired configuration may take
AllowedPairs == { << 256, 512 >>, << 512, 1024 >>, << 4096, 30720 >> }

DesiredValid(c) ==
    /\ << c.cpu, c.memory >> \in AllowedPairs
    /\ c.min_capacity <= c.desired_count
    /\ c.desired_count <= c.max_capacity

\* the calls a run made to the infrastructure provisioner, the registry and
\* the service deployer, the dry run of `pulumi preview` left out
ProviderCalls(r) == SelectSeq(log[r], LAMBDA op : op # "preview")

CertificateOps == { "request-certificate", "describe-certificate" }

Ended(r) == pc[r] = "done"
Active(r) == pc[r] \notin { "idle", "done" }

\* deploy_infrastructure of the run returned: its `pulumi up` succeeded
InfraApplied(r) == script[r] = "pulumi-deploy.sh" /\ fi[r] > 3

\* the run ended by a failing command of build_and_push_image
PushFailed(r) ==
    /\ Ended(r) /\ exit[r] # 0
    /\ script[r] = "pulumi-deploy.sh"
    /\ Main(r)[fi[r]] = "build_and_push_image"

\* q is a retry of r: the same script on the same stack, started after r ended
RetryOf(q, r) ==
    /\ q # r
    /\ script[q] = script[r]
    /\ arg[q] = arg[r]
    /\ STACK[q] = STACK[r]
    /\ r \in predecessors[q]

\* no other run was under way while r was
Alone(r) == \A q \in Runs \ { r } : pc[q] = "idle" \/ r \in predecessors[q]

\* C2: a run on a configuration with an invalid cpu/memory pair, or with
\* min > max, ends without having made any provider call.
C2_InvalidConfigNoProviderCall ==
    \A r \in Runs :
        (script[r] = "pulumi-deploy.sh" /\ Ended(r) /\ ~DesiredValid(config))
            => ProviderCalls(r) = << >>

\* C3: a run whose every poll of the service found failed tasks ends in
\* ROLLED_BACK, having invoked Rollback exactly once.
C3_FailedRolloutIsRolledBack ==
    \A r \in Runs :
        (Ended(r) /\ pollSeen[r] = { "failing" })
            => (DeploymentState(r) = "ROLLED_BACK" /\ Count(log[r], "rollback") = 1)

\* C4: of two runs for the same environment that overlap, only one makes
\* provider calls: the other is turned away before it makes any.
C4_OneRunPerEnvironment ==
    \A r, q \in Runs :
        (r # q /\ STACK[r] = STACK[q] /\ Active(r) /\ Active(q))
            => (ProviderCalls(r) = << >> \/ ProviderCalls(q) = << >>)

\* C6: when the push fails after the apply succeeded, the run ends with an
\* error, the outputs of the apply are kept, the service was not touched,
\* and a retry of the run with the same configuration makes no
\* infrastructure mutation.
C6_PushFailureIsSafelyRetryable ==
    \A r, q \in Runs :
        (PushFailed(r) /\ InfraApplied(r) /\ Alone(r))
            => /\ "update-service" \notin Range(log[r])
               /\ outputs[STACK[r]] # NoOutputs
               /\ (RetryOf(q, r) /\ InfraApplied(q)) => mutations[q] = {}

\* C7: an apply that follows a successful apply of the same configuration on
\* the same stack leaves the outputs as they were and creates or changes no
\* resource.
C7_ApplyIsIdempotent ==
    \A r, q \in Runs :
        (DesiredValid(config) /\ InfraApplied(r) /\ InfraApplied(q) /\ RetryOf(q, r))
            => /\ outputs[STACK[q]] = ExportedOutputs(config, exportsServiceName)
               /\ mutations[q] = {}

PushFunctions == { "build_and_push_image", "push_to_ecr" }

\* both docker push commands of the run succeeded
PushSucceeded(r) ==
    /\ Count(log[r], "push") = 2
    /\ ~(Ended(r) /\ exit[r] # 0 /\ Main(r)[fi[r]] \in PushFunctions)
    /\ pc[r] # "push_latest"

\* C11: a push that succeeded pushed the image under an immutable tag (a
\* revision) besides the floating tag latest, never under latest alone.
C11_NeverOnlyLatest ==
    \A r \in Runs :
        PushSucceeded(r) =>
            /\ IMAGE_TAG[r] # "latest"
            /\ registry[ECR_URL[r]][IMAGE_TAG[r]] # NoImage
            /\ registry[ECR_URL[r]]["latest"] # NoImage

(***************************************************************************)
(* Security groups: components/networking/security_groups.py and           *)
(* TradeRampStack._create_security_groups                                  *)
(***************************************************************************)
\* NetworkCIDR
INTERNET == "0.0.0.0/0"
VPC == "10.0.0.0/16"
ECR_ENDPOINTS == "52.94.0.0/20"

\* SecurityRule: cidr_blocks and security_groups are None ({} and << >>)
\* unless given
SecurityRule(protocol, from_port, to_port, cidr_blocks, security_groups) ==
    [ protocol |-> protocol, from_port |-> from_port, to_port |-> to_port,
      cidr_blocks |-> cidr_blocks, security_groups |-> security_groups ]

\* the id of a security group of a stack
SecurityGroupId(s, group) == << s, group >>

\* create_alb_security_group: ingress_rules and egress_rules
AlbIngressRules ==
    << SecurityRule("tcp", 80, 80, { INTERNET }, << >>),
       SecurityRule("tcp", 443, 443, { INTERNET }, << >>) >>

AlbEgressRules == << SecurityRule("tcp", 80, 80, { VPC }, << >>) >>

\* an ingress rule that lets the whole VPC reach the tasks
EcsIngressFromVpc(alb_sg_id) ==
    << SecurityRule("tcp", 80, 80, { VPC }, << >>) >>

\* _create_security_groups: the ingress_rules of the ECS security group
EcsIngressRules(alb_sg_id) ==
    << SecurityRule("tcp", 80, 80, {}, << alb_sg_id >>) >>

EcsEgressRules ==
    << SecurityRule("tcp", 443, 443, { INTERNET }, << >>),
       SecurityRule("tcp", 443, 443, { ECR_ENDPOINTS }, << >>) >>

\* SecurityGroupComponent._create_rule: the aws.ec2.SecurityGroupRule made of
\* a rule; source_security_group_id is the first of the rule's security
\* groups, None ({}) when it has none
CreateRule(i, rule, rule_type) ==
    [ name |-> << rule_type, i - 1 >>,
      type |-> rule_type,
      protocol |-> rule.protocol,
      from_port |-> rule.from_port,
      to_port |-> rule.to_port,
      cidr_blocks |-> rule.cidr_blocks,
      source_security_group_id |->
          IF rule.security_groups # << >> THEN { rule.security_groups[1] } ELSE {} ]

\* SecurityGroupComponent._create_rules
CreateRules(ingress_rules, egress_rules) ==
    { CreateRule(i, ingress_rules[i], "ingress") : i \in 1..Len(ingress_rules) }
        \cup { CreateRule(i, egress_rules[i], "egress") : i \in 1..Len(egress_rules) }

\* the rules of a security group of stack s, once `pulumi up` has got to it
SecurityGroupRules(s, group) ==
    IF stamps[s][IndexOf(group)] = 0
    THEN {}
    ELSE IF group = "alb_sg"
         THEN CreateRules(AlbIngressRules, AlbEgressRules)
         ELSE CreateRules(EcsIngressRules(SecurityGroupId(s, "alb_sg")), EcsEgressRules)

Ingress(rules) == { rule \in rules : rule.type = "ingress" }

\* C12: on every stack the program was applied to, the security group of
\* the tasks has exactly one ingress rule, its source is the security group
\* of the load balancer and it names no CIDR; the security group of the
\* load balancer admits inbound on ports 80 and 443 only.
C12_TasksReachableOnlyFromLoadBalancer ==
    \A s \in Stacks :
        /\ stamps[s][IndexOf("ecs_sg")] # 0 =>
              /\ Cardinality(Ingress(SecurityGroupRules(s, "ecs_sg"))) = 1
              /\ \A rule \in Ingress(SecurityGroupRules(s, "ecs_sg")) :
                    /\ rule.source_security_group_id = { SecurityGroupId(s, "alb_sg") }
                    /\ rule.cidr_blocks = {}
              /\ stamps[s][IndexOf("alb_sg")] # 0
        /\ stamps[s][IndexOf("alb_sg")] # 0 =>
              /\ { << rule.from_port, rule.to_port >> :
                      rule \in Ingress(SecurityGroupRules(s, "alb_sg")) }
                    = { << 80, 80 >>, << 443, 443 >> }
              /\ \A rule \in Ingress(SecurityGroupRules(s, "alb_sg")) :
                    rule.source_security_group_id = {}

\* C12 witness: the program was applied a second time to a stack whose
\* security groups exist
C12_Witness ==
    \E r, q \in Runs :
        /\ InfraApplied(r) /\ InfraApplied(q) /\ RetryOf(q, r)
        /\ IndexOf("ecs_sg") \in mutations[q]
        /\ Ingress(SecurityGroupRules(STACK[q], "ecs_sg")) # {}

(***************************************************************************)
(* Order of creation                                                       *)
(***************************************************************************)
\* the resources whose outputs a resource takes as inputs: vpc_id of the
\* gateway, the subnets, the route table and the security groups;
\* gateway_id of the route; subnet_id and route_table_id of the
\* associations; the ALB group's id in the ingress rule of the ECS group
DependsOn(name) ==
    CASE name = "igw" -> { "vpc" }
      [] name = "subnets" -> { "vpc" }
      [] name = "route_table" -> { "vpc", "igw" }
      [] name = "associations" -> { "subnets", "route_table" }
      [] name = "alb_sg" -> { "vpc" }
      [] name = "ecs_sg" -> { "vpc", "alb_sg" }
      [] OTHER -> {}

Exists(s, name) == stamps[s][IndexOf(name)] # 0

\* the place of a resource in the order VPC -> subnets/gateway -> route
\* table/associations -> security groups -> load balancer (with its target
\* group and listener) -> cluster -> service (with its task definition);
\* 0 for a resource the order does not name
OrderRank(name) ==
    CASE name = "vpc" -> 1
      [] name \in { "subnets", "igw" } -> 2
      [] name \in { "route_table", "associations" } -> 3
      [] name \in { "alb_sg", "ecs_sg" } -> 4
      [] name = "load_balancer" -> 5
      [] name = "ecs_cluster" -> 6
      [] name = "ecs_service" -> 7
      [] OTHER -> 0

Ranked == { i \in 1..NumResources : OrderRank(ResourceOrder[i]) # 0 }

Removed(p) == { i \in 1..NumResources : (0 - i) \in mutations[p] }

CompensatingOps == { "rollback", "destroy" }

\* C14: no run, whatever step it fails at, rolls the service back or
\* destroys anything on its own account: resources are removed only by
\* pulumi-destroy.sh, and only after the operator typed yes and then y.
C14_NoAutomaticDestruction ==
    /\ \A r \in Runs :
          /\ Range(log[r]) \cap CompensatingOps = {}
          /\ Removed(r) = {}
    /\ Removed("wait") = {} /\ Removed("https") = {}
    /\ (dpc \in { "destroy", "destroying", "confirm_remove" } \/ Removed("destroy") # {}
          \/ lockHolder["production"] = "destroy" \/ lockHolder["staging"] = "destroy")
          => /\ Len(dREPLY) >= 2
             /\ dREPLY[1] = "yes"
             /\ dREPLY[2] = "y"

\* C14 witness: a run failed having changed the infrastructure and not the
\* service, and resources were removed by the operator's pulumi-destroy.sh
C14_Witness ==
    /\ \E r \in Runs :
          /\ Ended(r) /\ exit[r] # 0
          /\ mutations[r] # {}
          /\ "update-service" \notin Range(log[r])
    /\ Removed("destroy") # {}
    /\ dpc = "done"

(***************************************************************************)
(* Properties of the service update                                        *)
(***************************************************************************)
\* the calls that read the task definition the service runs
CaptureOps == { "describe-services", "describe-task-definition" }

\* C15: when a run has issued update-service, it had read the task
\* definition the service was running before it issued it.
C15_PreviousTaskDefinitionCaptured ==
    \A r \in Runs : \A j \in 1..Len(log[r]) :
        log[r][j] = "update-service" =>
            \E i \in 1..(j - 1) : log[r][i] \in CaptureOps

\* the run issued update-service and its update_ecs_service returned
RolloutReturned(r) ==
    /\ "update-service" \in Range(log[r])
    /\ Main(r)[fi[r]] # "update_ecs_service"

\* the polls of the run's wait are used up and none found the service steady
WaitTimedOut(r) == attempts[r] >= MaxWaitAttempts /\ "steady" \notin pollSeen[r]

C18_TimeoutEndsRunInfraKept ==
    (wpc # "idle" /\ wPolls = { "PENDING_VALIDATION" } /\ WaitElapsed > WaitTimeout)
        => /\ wpc = "done" /\ wExit # 0
           /\ mutations["wait"] = {}
           /\ \A s \in Stacks : \A t \in Tags : registry[s][t] = NoImage
           /\ \A s \in Stacks : svc[s] = "steady"

(***************************************************************************)
(* Exit codes                                                              *)
(***************************************************************************)
\* the run rolled the service out and a poll found it steady
Stable(r) == RolloutReturned(r) /\ "steady" \in pollSeen[r]

\* the run was asked for a full deployment and went past the confirmation
FullDeployment(r) == arg[r] = "" /\ ProviderCalls(r) # << >>

\* C19: a deployment ends with exit code 0 exactly when it ended with the
\* service rolled out and steady.
C19_ExitZeroIffStable ==
    \A r \in Runs :
        (Ended(r) /\ FullDeployment(r)) => (exit[r] = 0 <=> Stable(r))

(***************************************************************************)
(* Environments                                                            *)
(***************************************************************************)
\* C20: a run works on the stack of its own environment only: its
\* `pulumi up` updates that stack, and the outputs it reads are that
\* stack's.
C20_RunStaysInItsEnvironment ==
    \A r \in Runs :
        /\ \A s \in Stacks : lockHolder[s] = r => s = STACK[r]
        /\ ECR_URL[r] \in { "", STACK[r] }
        /\ SERVICE_NAME[r] \in { "", STACK[r] }

(***************************************************************************)
(* What is kept of a run                                                   *)
(***************************************************************************)
\* what the backend keeps of a stack: whether it exists, and the outputs of
\* its last successful update
StoredRecord(s) == [ exists |-> s \in stacks, outputs |-> outputs[s] ]

\* a record of a stack nothing was ever written to
EmptyRecord == [ exists |-> FALSE, outputs |-> NoOutputs ]

\* C21: whenever a run has returned, the stored record of its stack tells
\* how it ended: the record was written, and it holds outputs exactly when
\* the run ended well.
C21_OutcomeIsStored ==
    \A r \in Runs :
        (Ended(r) /\ script[r] = "pulumi-deploy.sh" /\ Alone(r)) =>
            /\ StoredRecord(STACK[r]) # EmptyRecord
            /\ exit[r] = 0 <=> StoredRecord(STACK[r]).outputs # NoOutputs

(***************************************************************************)
(* The image the service runs                                              *)
(***************************************************************************)
\* the options of `aws ecs update-service` in update_ecs_service
UpdateServiceOptions ==
    { "--cluster", "--service", "--force-new-deployment", "--region", "--output" }

\* C22: a run that rolls the service out registered a task definition
\* before, hands it to update-service, and the tag it pins is the tag the
\* run pushed, not latest.
C22_RolloutPinsPushedTag ==
    \A r \in Runs : \A j \in 1..Len(log[r]) :
        log[r][j] = "update-service" =>
            /\ \E i \in 1..(j - 1) : log[r][i] = "register-task-definition"
            /\ "--task-definition" \in UpdateServiceOptions
            /\ IMAGE_TAG[r] \in Tags \ { "latest" }


\* the run ended because its `pulumi up` failed
ApplyFailed(r) ==
    /\ Ended(r) /\ exit[r] # 0
    /\ script[r] = "pulumi-deploy.sh"
    /\ Main(r)[fi[r]] = "deploy_infrastructure"
    /\ "up" \in Range(log[r])

StateRank(st) ==
    CASE st = "PENDING" -> 0
      [] st = "APPLYING_INFRA" -> 1
      [] st = "WAITING_CERTIFICATE" -> 2
      [] st = "PUSHING_IMAGE" -> 3
      [] st = "ROLLING_SERVICE" -> 4
      [] OTHER -> 5

\* the step a provider operation belongs to
OpRank(op) ==
    CASE op \in { "preview", "up" } -> 1
      [] op \in CertificateOps -> 2
      [] op \in { "ecr-login", "describe-repositories", "push" } -> 3
      [] OTHER -> 4

\* the run's operations were issued step after step, and those of the
\* steps after the infrastructure only once `pulumi up` had succeeded
StepsInOrder(r) ==
    /\ \A i, j \in 1..Len(log[r]) : i < j => OpRank(log[r][i]) <= OpRank(log[r][j])
    /\ (script[r] = "pulumi-deploy.sh" /\ \E i \in 1..Len(log[r]) : OpRank(log[r][i]) > 1)
            => (InfraApplied(r) /\ "up" \in Range(log[r]))

InfraOnly(r) ==
    pc[r] # "idle" /\ script[r] = "pulumi-deploy.sh" /\ arg[r] = "--infra-only"

\* C25: a run of pulumi-deploy.sh --infra-only issues no operation but the
\* preview and the update of the infrastructure: it builds no image (no tag
\* is chosen), looks up no repository, pushes nothing, updates no service
\* and waits for none; when it has ended with 0 after an update, the
\* infrastructure is applied.
C25_InfraOnlyDeploysOnlyInfrastructure ==
    \A r \in Runs :
        InfraOnly(r) =>
            /\ Range(log[r]) \subseteq { "preview", "up" }
            /\ IMAGE_TAG[r] = "" /\ ECR_URL[r] = ""
            /\ CLUSTER_NAME[r] = "" /\ SERVICE_NAME[r] = ""
            /\ attempts[r] = 0 /\ pollSeen[r] = {}
            /\ (Ended(r) /\ exit[r] = 0 /\ "up" \in Range(log[r])) => InfraApplied(r)

\* a run with --infra-only ended with 0 having created the resources of
\* the stack
C25_Witness ==
    \E r \in Runs :
        /\ InfraOnly(r) /\ Ended(r) /\ exit[r] = 0
        /\ created[r] = 1..NumResources
        /\ log[r] = << "preview", "up" >>


(***************************************************************************)
(* Properties of the validation of the configuration                       *)
(***************************************************************************)
\* the program of the run's `pulumi preview` has run validate()
Validated(r) ==
    script[r] = "pulumi-deploy.sh" /\ fi[r] >= 3 /\ pc[r] \notin { "idle", "preview" }

\* validate() of that program raised nothing
Accepted(r) == "preview" \in Range(log[r])

\* C26: the validation accepts the configuration exactly when its
\* cpu/memory pair is an allowed pair and min <= desired <= max.
C26_AcceptsExactlyAllowedPairs ==
    \A r \in Runs : Validated(r) => (Accepted(r) <=> DesiredValid(config))


(***************************************************************************)
(* Properties of the repetition of steps                                   *)
(***************************************************************************)
\* the docker push commands of one push: "$ECR_URL:$IMAGE_TAG" and
\* "$ECR_URL:latest"
PushesOfOnePush == 2

\* C27: a run issues `pulumi up` at most once, the registry login and the
\* push of the image (its two docker push commands) at most once, the
\* service update at most once and a rollback at most once; only the polls
\* of the service repeat, and at most MaxWaitAttempts of them are made.
C27_MutatingStepsAtMostOnce ==
    \A r \in Runs :
        /\ Count(log[r], "up") <= 1
        /\ Count(log[r], "ecr-login") <= 1
        /\ Count(log[r], "push") <= PushesOfOnePush
        /\ Count(log[r], "update-service") <= 1
        /\ Count(log[r], "rollback") <= 1
        /\ attempts[r] <= MaxWaitAttempts

\* a run whose push failed at its second docker push command ended there:
\* it had issued `pulumi up` once and both pushes, and nothing after them
C27_Witness ==
    \E r \in Runs :
        /\ PushFailed(r)
        /\ log[r] = << "preview", "up", "ecr-login", "push", "push" >>


\* C28: a run issues update-service only after it pushed an image: a run
\* that found no registry URL in the stack's outputs, and skipped the build
\* and the push, issues no update-service.
C28_ServiceUpdatedOnlyAfterPush ==
    \A r \in Runs : \A j \in 1..Len(log[r]) :
        (script[r] = "pulumi-deploy.sh" /\ log[r][j] = "update-service") =>
            /\ ECR_URL[r] # ""
            /\ \E i \in 1..(j - 1) : log[r][i] = "push"


(***************************************************************************)
(* Properties of the certificate's use                                     *)
(***************************************************************************)
\* the script read the status ISSUED and took the branch that deploys the
\* HTTPS listener
WaitSawIssued == wSTATUS = "ISSUED" /\ wpc \notin { "idle", "describe" }
HttpsSawIssued == hSTATUS = "ISSUED" /\ hpc \notin { "idle", "describe" }

\* C29: a certificate script that found the certificate ISSUED goes on with
\* it having requested none, however many of them run; and the status of
\* the certificate changes only by the certificate authority's transitions,
\* in steps in which no script moves.
C29_IssuedCertificateIsReusedAndOnlyRead ==
    /\ [](/\ WaitSawIssued => "request-certificate" \notin acmCalls["wait"]
          /\ HttpsSawIssued => "request-certificate" \notin acmCalls["https"])
    /\ [][certStatus' # certStatus =>
            /\ << certStatus, certStatus' >> \in CertTransitions
            /\ UNCHANGED << acmCalls, waitVars, httpsVars, pulumiVars >>]_vars

\* both scripts found the certificate ISSUED, one after the other, each
\* having only described it, and deployed the listener with it
C29_Witness ==
    /\ WaitSawIssued /\ HttpsSawIssued
    /\ wpc = "done" /\ hpc = "done" /\ wExit = 0 /\ hExit = 0
    /\ acmCalls = [ p \in { "wait", "https" } |-> { "describe-certificate" } ]
    /\ certArnConfigured
    /\ mutations["wait"] # {} /\ mutations["https"] # {}


(***************************************************************************)
(* Properties of the lock                                                  *)
(***************************************************************************)
\* C30: a run holds the lock of its environment from its start until it
\* has ended, and holds none once it has ended, whatever its outcome (so
\* that a later run for the environment is admitted).
C30_RunLockHeldUntilTerminal ==
    \A r \in Runs :
        /\ Active(r) => lockHolder[STACK[r]] = r
        /\ Ended(r) => LockedBy(r) = {}

=============================================================================
